---- MODULE Spec2Model ----
(***************************************************************************)
(* Model of the RAG service: the tool-call integrity pass, the retrieval   *)
(* graph runtime (LangGraph state machine) and the ingestion pipeline with *)
(* its vector store and parent map.                                        *)
(***************************************************************************)
EXTENDS Bags, FiniteSets, Integers, Sequences, TLC

VARIABLES
    \* ---- integrity pass (pure functions applied to a message list)
    in_msgs,        \* the message list handed to _clean_orphaned_tool_calls
    out_msgs,       \* the list it returned
    integ_pc,       \* "input" | "done"
    \* ---- retrieval graph runtime
    cfg,            \* configuration of the process (env driven)
    st,             \* RAGState channels of the thread (checkpointed when enabled)
    pc,             \* node about to run: "idle" or a node name
    run,            \* per-request observations (history of the current run)
    \* ---- ingestion and the vector store
    icfg,           \* VECTOR_DB_MODE, USE_PARENT_CHILD_STRATEGY, USE_HYBRID_RETRIEVER
    files,          \* the uploaded file of each document (its chunk structure)
    documents,      \* the documents table
    jobs,           \* the background ingestion task of each document
    vectors,        \* the entries of the vector store (all collections / the index)
    parent_child_maps,  \* the rows of the parent_child_maps table
    chat,           \* the chat request in flight: its events and saved messages
    loader,         \* the embedding model loader of VectorStoreService
    conns,          \* the PostgreSQL connections of DatabaseManager
    ckpt,           \* the checkpoint of one thread and the runs working on it
    rq,             \* a call of RAGService.query on the non-graph path
    tokens,         \* the process-wide token_counter and the requests using it
    obs             \* observations: last vector operations, last retrieval, and
                    \* fresh[d]: the last event on d is a successful ingestion
                    \* that no delete request ran into

integVars == <<in_msgs, out_msgs, integ_pc>>
graphVars == <<cfg, st, pc, run>>
ingestVars == <<icfg, files, documents, jobs, vectors, parent_child_maps, obs>>
chatVars == <<chat>>
svcVars == <<loader, conns, ckpt, rq, tokens>>
appVars == <<in_msgs, out_msgs, integ_pc, cfg, st, pc, run,
             icfg, files, documents, jobs, vectors, parent_child_maps, obs, chat>>
vars == <<in_msgs, out_msgs, integ_pc, cfg, st, pc, run,
          icfg, files, documents, jobs, vectors, parent_child_maps, obs, chat,
          loader, conns, ckpt, rq, tokens>>

\* no chat request has been received
ChatIdle ==
    chat = [pc |-> "idle", path |-> "", events |-> <<>>, saved |-> <<>>,
            plan |-> <<>>, requests |-> 0]

\* request threads that use the vector store service
Callers == {"t1", "t2"}

\* VectorStoreService.__init__: the flags are cleared, then the first load is
\* started on the loader thread
LoaderIdle ==
    loader = [loading |-> TRUE, loaded |-> FALSE, active |-> 1, started |-> 1,
              failures |-> 0, tpc |-> [t \in Callers |-> "idle"]]

MaxConns == 4   \* connections opened over the life of the process
ConnIds == 1..MaxConns

\* DatabaseManager.__init__: no pool yet, no connection opened
PoolIdle ==
    conns = [c \in ConnIds |-> [loc |-> "free", pooled |-> FALSE, alive |-> FALSE,
                                 body |-> "", tx |-> "none"]]

\* chat requests sent for one thread_id
Runs == {"q1", "q2"}

\* the thread has no checkpoint and no request is being processed
CkptIdle ==
    ckpt = [stored |-> [messages |-> <<>>, retry_count |-> 0,
                        current_query |-> "", no_relevant_found |-> FALSE],
            local |-> [r \in Runs |-> [messages |-> <<>>, retry_count |-> 0,
                        current_query |-> "", no_relevant_found |-> FALSE]],
            rpc |-> [r \in Runs |-> "idle"],
            steps |-> [r \in Runs |-> 0]]

\* no query is being answered on the non-graph path
QueryIdle ==
    rq = [pc |-> "off", scores |-> <<>>, enabled |-> TRUE, threshold |-> 3,
          result |-> [fallback_mode |-> FALSE, retrieved_docs |-> <<>>]]

\* TokenCounter.__init__ and no chat request using the counter: total is
\* total_stats["total_tokens"]; of request r, own is what its own LLM calls
\* cost, calls their number and tokens_used the value it reported
TokensIdle ==
    tokens = [total |-> 0,
              req |-> [r \in Runs |-> [pc |-> "idle", own |-> 0, calls |-> 0,
                                       tokens_used |-> 0]]]

\* the process-wide services are as constructed
SvcIdle == LoaderIdle /\ PoolIdle /\ CkptIdle /\ QueryIdle /\ TokensIdle

(***************************************************************************)
(* Messages.  content is a sequence of text fragments (<<>> is the empty   *)
(* string), tool_calls a sequence of [id, query] records.                  *)
(***************************************************************************)
NoneId  == "None"      \* Python None as a tool-call id
EmptyId == ""          \* the empty string as a tool-call id
UuidId  == "uuid4"     \* an id made by str(uuid.uuid4()): equal to no id of the input

SystemMessage(c) == [type |-> "system", content |-> c, tool_calls |-> <<>>, tool_call_id |-> NoneId]
HumanMessage(c)  == [type |-> "human",  content |-> c, tool_calls |-> <<>>, tool_call_id |-> NoneId]
AIMessage(c, tcs) == [type |-> "ai",    content |-> c, tool_calls |-> tcs,  tool_call_id |-> NoneId]
ToolMessage(c, id) == [type |-> "tool", content |-> c, tool_calls |-> <<>>, tool_call_id |-> id]

ToolCall(id, q) == [id |-> id, query |-> q]

IsAI(m)     == m.type = "ai"
IsHuman(m)  == m.type = "human"
IsTool(m)   == m.type = "tool"
IsSystem(m) == m.type = "system"
\* isinstance(msg, AIMessage) and hasattr(msg, 'tool_calls') and msg.tool_calls
HasToolCalls(m) == IsAI(m) /\ m.tool_calls # <<>>
\* bool(x) of an id: None and "" are falsy
Truthy(id) == id # NoneId /\ id # EmptyId
\* bool(msg.content)
HasContent(m) == m.content # <<>>

SeqRange(s) == {s[k] : k \in DOMAIN s}
SetLast(s, x) == [s EXCEPT ![Len(s)] = x]
Pop(s) == SubSeq(s, 1, Len(s) - 1)
IdsOf(tcs) == {tcs[k].id : k \in DOMAIN tcs}

(***************************************************************************)
(* _validate_and_fix_tool_calls                                            *)
(***************************************************************************)
\* every tool-call id becomes a string; a call without id gets a fresh uuid
NormalizeToolCalls(tcs) ==
    [k \in DOMAIN tcs |->
        IF tcs[k].id # NoneId THEN tcs[k] ELSE [tcs[k] EXCEPT !.id = UuidId]]

\* the inner while loop: from position i, collect the tool messages that
\* answer one of ids, skip the others, keep any other message, and stop at
\* the next AIMessage or HumanMessage
RECURSIVE ScanToolMessages(_, _, _, _, _)
ScanToolMessages(messages, i, ids, fixed, found) ==
    IF i > Len(messages)
    THEN [i |-> i, fixed |-> fixed, found |-> found]
    ELSE LET next_msg == messages[i] IN
         IF IsAI(next_msg) \/ IsHuman(next_msg)
         THEN [i |-> i, fixed |-> fixed, found |-> found]
         ELSE IF IsTool(next_msg)
         THEN IF next_msg.tool_call_id # NoneId /\ next_msg.tool_call_id \in ids
              THEN ScanToolMessages(messages, i + 1, ids,
                       Append(fixed, ToolMessage(next_msg.content, next_msg.tool_call_id)),
                       found \cup {next_msg.tool_call_id})
              ELSE ScanToolMessages(messages, i + 1, ids, fixed, found)
         ELSE ScanToolMessages(messages, i + 1, ids, Append(fixed, next_msg), found)

\* after the scan: tool calls without a ToolMessage are removed from the
\* assistant message; the code writes the result to fixed_messages[-1]
FixMissingToolMessages(fixed, fixed_ai_msg, found) ==
    LET missing == IdsOf(fixed_ai_msg.tool_calls) \ found
        remaining == SelectSeq(fixed_ai_msg.tool_calls, LAMBDA tc : tc.id \in found)
    IN  IF missing = {} THEN fixed
        ELSE IF remaining # <<>>
        THEN SetLast(fixed, AIMessage(fixed_ai_msg.content, remaining))
        ELSE IF HasContent(fixed_ai_msg)
        THEN SetLast(fixed, AIMessage(fixed_ai_msg.content, <<>>))
        ELSE Pop(fixed)

RECURSIVE ValidateLoop(_, _, _)
ValidateLoop(messages, i, fixed) ==
    IF i > Len(messages) THEN fixed
    ELSE LET msg == messages[i] IN
         IF HasToolCalls(msg)
         THEN LET fixed_ai_msg == AIMessage(msg.content, NormalizeToolCalls(msg.tool_calls))
                  scan == ScanToolMessages(messages, i + 1, IdsOf(fixed_ai_msg.tool_calls),
                                           Append(fixed, fixed_ai_msg), {})
              IN  ValidateLoop(messages, scan.i,
                               FixMissingToolMessages(scan.fixed, fixed_ai_msg, scan.found))
         ELSE ValidateLoop(messages, i + 1, Append(fixed, msg))

ValidateAndFixToolCalls(messages) ==
    IF messages = <<>> THEN messages ELSE ValidateLoop(messages, 1, <<>>)

(***************************************************************************)
(* _clean_orphaned_tool_calls                                              *)
(***************************************************************************)
ScanWindow == 10   \* "最多检查后续10条消息"

\* ids of the tool calls of msg that are truthy
TruthyIds(tcs) == {id \in IdsOf(tcs) : Truthy(id)}

\* tool messages answering ids among the messages after position i, up to
\* the next AIMessage/HumanMessage and within the window
RECURSIVE FoundToolMessages(_, _, _, _, _)
FoundToolMessages(messages, i, j, ids, found) ==
    IF ~(j <= Len(messages) /\ j < i + ScanWindow) THEN found
    ELSE LET next_msg == messages[j] IN
         IF IsTool(next_msg)
         THEN FoundToolMessages(messages, i, j + 1, ids,
                  IF Truthy(next_msg.tool_call_id) /\ next_msg.tool_call_id \in ids
                  THEN found \cup {next_msg.tool_call_id} ELSE found)
         ELSE IF IsAI(next_msg) \/ IsHuman(next_msg) THEN found
         ELSE FoundToolMessages(messages, i, j + 1, ids, found)

\* position after the ToolMessages that directly follow and answer an orphaned id
RECURSIVE SkipOrphanedToolMessages(_, _, _)
SkipOrphanedToolMessages(messages, i, orphaned_ids) ==
    IF i <= Len(messages) /\ IsTool(messages[i])
       /\ Truthy(messages[i].tool_call_id) /\ messages[i].tool_call_id \in orphaned_ids
    THEN SkipOrphanedToolMessages(messages, i + 1, orphaned_ids)
    ELSE i

RECURSIVE CleanLoop(_, _, _)
CleanLoop(messages, i, cleaned) ==
    IF i > Len(messages) THEN cleaned
    ELSE LET msg == messages[i] IN
         IF HasToolCalls(msg)
         THEN LET tool_call_ids == TruthyIds(msg.tool_calls)
                  found == FoundToolMessages(messages, i, i + 1, tool_call_ids, {})
                  orphaned_ids == tool_call_ids \ found
                  paired == SelectSeq(msg.tool_calls,
                                LAMBDA tc : Truthy(tc.id) /\ tc.id \in found)
              IN  IF found = tool_call_ids
                  THEN CleanLoop(messages, i + 1, Append(cleaned, msg))
                  ELSE CleanLoop(messages,
                           SkipOrphanedToolMessages(messages, i + 1, orphaned_ids),
                           IF HasContent(msg)
                           THEN Append(cleaned, AIMessage(msg.content, paired))
                           ELSE cleaned)
         ELSE CleanLoop(messages, i + 1, Append(cleaned, msg))

CleanOrphanedToolCalls(messages) ==
    IF messages = <<>> THEN messages
    ELSE CleanLoop(ValidateAndFixToolCalls(messages), 1, <<>>)

(***************************************************************************)
(* Vector store strategies, parent map and documents table                 *)
(***************************************************************************)
Users == {"A", "B"}
DocIds == {"d1", "d2"}

\* documents.user_id, written by create_document at upload
Owner(d) == IF d = "d1" THEN "A" ELSE "B"

\* get_vector_store: Chroma keeps one collection per user, Pinecone one
\* global index
VectorStoreOf(mode, user_id) ==
    IF mode = "cloud" THEN [name |-> "pinecone_global", user |-> ""]
    ELSE [name |-> "user_docs", user |-> user_id]

\* a metadata filter is a set of <<key, value>> pairs, all of which must match
Matches(v, filter) == \A f \in filter : v[f[1]] = f[2]

\* the store is a bag of entries: an entry added twice is held twice
Query(store, filter) == {v \in BagToSet(vectors) : v.store = store /\ Matches(v, filter)}

\* the store without the entries of a set
DeleteEntries(store_entries, gone) ==
    [v \in BagToSet(store_entries) \ gone |-> store_entries[v]]

\* number of entries of the store that carry doc_id
ChunksInStore(store_entries, doc_id) ==
    BagCardinality([v \in {e \in BagToSet(store_entries) : e.doc_id = doc_id}
                      |-> store_entries[v]])

\* a retriever built without search filter in either mode
NoRetrieverFilter(mode, user_id) == {}

\* a delete that names the document only
DocIdFilter(user_id, doc_id) == {<<"doc_id", doc_id>>}

\* ChromaStrategy.search / search_with_score: filter_args is passed through
ChromaSearchFilter(user_id) == {}

\* ChromaStrategy.delete_documents: where = {"doc_id": doc_id}
ChromaDeleteFilter(user_id, doc_id) == {<<"doc_id", doc_id>>}

\* PineconeStrategy.search / search_with_score: user_id is forced
PineconeSearchFilter(user_id) == {<<"user_id", user_id>>}

\* PineconeStrategy.delete_documents
PineconeDeleteFilter(user_id, doc_id) == {<<"user_id", user_id>>, <<"doc_id", doc_id>>}

StrategySearchFilter(mode, user_id) ==
    IF mode = "cloud" THEN PineconeSearchFilter(user_id) ELSE ChromaSearchFilter(user_id)

StrategyDeleteFilter(mode, user_id, doc_id) ==
    IF mode = "cloud" THEN PineconeDeleteFilter(user_id, doc_id)
    ELSE ChromaDeleteFilter(user_id, doc_id)

\* VectorStoreService.get_retriever: search_kwargs["filter"] only in cloud mode
RetrieverFilter(mode, user_id) ==
    IF mode = "cloud" THEN {<<"user_id", user_id>>} ELSE {}

\* HybridRetriever._build_bm25_if_possible: where = {"user_id": self.user_id}
Bm25Where(user_id) == {<<"user_id", user_id>>}

\* a vector-store operation as it is issued
VectorOp(kind, mode, caller, filter) ==
    [kind |-> kind, store |-> VectorStoreOf(mode, caller), caller |-> caller,
     filter |-> filter]

\* the k smallest positive numbers not in used (uuid4: ids nobody holds)
RECURSIVE FreshSeq(_, _)
FreshSeq(used, k) ==
    IF k = 0 THEN <<>>
    ELSE LET n == CHOOSE c \in 1..(Cardinality(used) + 1) :
                     /\ c \notin used
                     /\ \A e \in 1..(c - 1) : e \in used
         IN  <<n>> \o FreshSeq(used \cup {n}, k - 1)

RECURSIVE SumSeq(_)
SumSeq(s) == IF s = <<>> THEN 0 ELSE Head(s) + SumSeq(Tail(s))

\* split_to_parent_child: the parent_id of every child, parent by parent
RECURSIVE ChildParents(_, _)
ChildParents(shape, parent_ids) ==
    IF shape = <<>> THEN <<>>
    ELSE [k \in 1..Head(shape) |-> Head(parent_ids)]
            \o ChildParents(Tail(shape), Tail(parent_ids))

\* the child documents of a file (chunk_id = position, from 0); parent_id is
\* 0 when the parent-child strategy is off
ChildDocuments(shape, parent_ids, parent_child) ==
    LET n == SumSeq(shape)
        owners == IF parent_child THEN ChildParents(shape, parent_ids)
                  ELSE [k \in 1..n |-> 0]
    IN  [i \in 1..n |-> [chunk_id |-> i - 1, parent_id |-> owners[i]]]

\* vectorstore.add_documents without ids: every document becomes a new
\* entry under a new uuid4, whatever the store already holds
RECURSIVE AddDocuments(_, _, _, _, _)
AddDocuments(store_entries, store, user_id, doc_id, batch) ==
    IF batch = <<>> THEN store_entries
    ELSE LET entry == [store |-> store, user_id |-> user_id, doc_id |-> doc_id,
                       chunk_id |-> Head(batch).chunk_id,
                       parent_id |-> Head(batch).parent_id]
         IN  AddDocuments(store_entries (+) SetToBag({entry}), store, user_id,
                          doc_id, Tail(batch))

\* save_parent_map, first transaction: DELETE ... WHERE user_id AND doc_id
DeleteParentMapRows(rows, user_id, doc_id) ==
    {r \in rows : ~(r.user_id = user_id /\ r.doc_id = doc_id)}

\* save_parent_map, second transaction: the batch INSERT
InsertParentMapRows(rows, user_id, doc_id, parent_ids) ==
    rows \cup {[user_id |-> user_id, doc_id |-> doc_id, parent_id |-> pid] :
                  pid \in parent_ids}

\* get_parent_map_for_user: WHERE user_id = ?
ParentMapForUser(rows, user_id) == {r \in rows : r.user_id = user_id}

\* retrieve_documents: children are replaced by their parent blocks when the
\* retriever carries a non-empty parent map
ProjectToParents(child_docs, parent_map) ==
    IF parent_map # {}
    THEN {[kind |-> "parent", user_id |-> r.user_id, doc_id |-> r.doc_id] :
             r \in {q \in parent_map : \E c \in child_docs : c.parent_id = q.parent_id}}
    ELSE {[kind |-> "child", user_id |-> c.user_id, doc_id |-> c.doc_id] :
             c \in child_docs}

\* a failure handler that writes the log only
LogErrorOnly(docs, doc_id) == docs

\* DocumentDAO.mark_document_error: UPDATE documents SET status = 'error'
MarkDocumentError(docs, doc_id) == [docs EXCEPT ![doc_id].status = "error"]

\* DocumentDAO.mark_document_active: status = 'active', chunk_count = ?
MarkDocumentActive(docs, doc_id, chunk_count) ==
    [docs EXCEPT ![doc_id].status = "active", ![doc_id].chunk_count = chunk_count]

\* DocumentDAO.update_document: a field outside allowed_fields is skipped
\* (page_count 0 stands for NULL)
UpdateDocument(docs, doc_id, field, value) ==
    IF field \in {"chunk_count", "status", "error_message", "metadata"}
    THEN [docs EXCEPT ![doc_id][field] = value]
    ELSE docs

\* len(pages) of the loaded PDF: the file has one page per top-level block
PageCount(file) == Len(file)

\* raced: a delete request ran while the task was in flight (history)
JobIdle ==
    [pc |-> "idle", user_id |-> "", children |-> <<>>, parents |-> {}, next |-> 1,
     raced |-> FALSE]

ObsIdle ==
    [ops |-> {}, retrieved |-> [user |-> "", items |-> {}, output |-> ""],
     fresh |-> [d \in DocIds |-> FALSE], successes |-> [d \in DocIds |-> 0],
     runs |-> 0, deleted |-> [d \in DocIds |-> FALSE]]

IngestIdle ==
    /\ icfg = [mode |-> "local", parent_child |-> FALSE, hybrid |-> FALSE, top_k |-> 2]
    /\ files = [d \in DocIds |-> <<>>]
    /\ documents = [d \in DocIds |->
                      [user_id |-> Owner(d), status |-> "processing", chunk_count |-> 0,
                       page_count |-> 0]]
    /\ jobs = [d \in DocIds |-> JobIdle]
    /\ vectors = EmptyBag
    /\ parent_child_maps = {}
    /\ obs = ObsIdle

(***************************************************************************)
(* Retrieval graph runtime: RAGState, its reducer, the nodes and the edges *)
(***************************************************************************)
SummaryMarker == "[SUMMARY]"     \* the literal "[对话历史总结]"

\* content of a message holding the text q ("" is the empty string)
ContentOf(q) == IF q = "" THEN <<>> ELSE <<q>>

\* a reducer that takes the written list as the new history
OverwriteMessages(left, right) == right

\* reducer of the messages channel: a list that starts with a SystemMessage
\* carrying the summary marker replaces the history, any other list is appended
ReplaceMessages(left, right) ==
    IF right # <<>> /\ IsSystem(right[1]) /\ SummaryMarker \in SeqRange(right[1].content)
    THEN right
    ELSE left \o right

\* channels of a thread that has no checkpoint (state.get defaults)
EmptyState ==
    [messages |-> <<>>, retry_count |-> 0, current_query |-> "",
     no_relevant_found |-> FALSE]

\* an input that leaves the retry_count channel alone
InitialStateNoRetry(question) ==
    [messages |-> <<HumanMessage(ContentOf(question))>>,
     current_query |-> question,
     no_relevant_found |-> FALSE]

\* the input of graph.stream / graph.invoke for a new user turn
InitialState(question) ==
    [messages |-> <<HumanMessage(ContentOf(question))>>,
     retry_count |-> 0,
     current_query |-> question,
     no_relevant_found |-> FALSE]

\* a node's (or the input's) update applied to the channels: messages goes
\* through its reducer, a channel without reducer takes the written value,
\* a channel the update does not name keeps its value
ApplyUpdate(state, update) ==
    [k \in DOMAIN state |->
        IF k \notin DOMAIN update THEN state[k]
        ELSE IF k = "messages" THEN ReplaceMessages(state.messages, update.messages)
        ELSE update[k]]

\* build_rag_graph: the node START leads to
EntryNode(c) ==
    IF c.use_summarization THEN "summarize_messages" ELSE "generate_query_or_respond"

\* tools_condition on the last message of the state
ToolsCondition(messages) ==
    IF messages # <<>> /\ HasToolCalls(messages[Len(messages)]) THEN "retrieve" ELSE "END"

\* a router that looks at retry_count only
GradeRouteIgnoreGrade(grade, retry_count) ==
    IF retry_count >= 2 THEN "generate_answer" ELSE "rewrite_question"

\* a router that gives up after one rewrite
GradeRouteEarly(grade, retry_count) ==
    IF grade = "yes" THEN "generate_answer"
    ELSE IF retry_count >= 1 THEN "generate_answer"
    ELSE "rewrite_question"

\* a router without the retry limit
GradeRouteNoLimit(grade, retry_count) ==
    IF grade = "yes" THEN "generate_answer" ELSE "rewrite_question"

\* routing decision of grade_documents (grade is "yes", "no" or "none")
GradeRoute(grade, retry_count) ==
    IF grade = "yes" THEN "generate_answer"
    ELSE IF retry_count >= 2 THEN "generate_answer"
    ELSE "rewrite_question"

\* generate_answer: which of its two branches runs
AnswerMode(retry_count) ==
    IF retry_count >= 3 THEN "no_relevant" ELSE "normal"

(***************************************************************************)
(* summarize_messages                                                      *)
(***************************************************************************)
SystemMessages(messages) == SelectSeq(messages, IsSystem)

NonSystemMessages(messages) == SelectSeq(messages, LAMBDA m : ~IsSystem(m))

\* token estimate of a message list, in units: one per text fragment of a
\* content and one per tool call
RECURSIVE MessagesTokens(_)
MessagesTokens(messages) ==
    IF messages = <<>> THEN 0
    ELSE Len(Head(messages).content) + Len(Head(messages).tool_calls)
            + MessagesTokens(Tail(messages))

\* position of the last assistant message of msgs that holds a tool call
\* with this id, 0 when there is none
FindAIForToolCall(msgs, tool_call_id) ==
    LET hits == {k \in DOMAIN msgs :
                    /\ IsAI(msgs[k])
                    /\ \E t \in DOMAIN msgs[k].tool_calls :
                          msgs[k].tool_calls[t].id = tool_call_id}
    IN  IF hits = {} THEN 0 ELSE CHOOSE k \in hits : \A h \in hits : h <= k

Without(msgs, found) == SelectSeq(msgs, LAMBDA m : m # found)

\* step 4.2: the kept messages start with a tool message
RepairLeadingToolMessage(old_messages, new_messages) ==
    IF new_messages # <<>> /\ IsTool(new_messages[1])
          /\ Truthy(new_messages[1].tool_call_id)
    THEN LET k == FindAIForToolCall(old_messages, new_messages[1].tool_call_id) IN
         IF k # 0
         THEN [old |-> Without(old_messages, old_messages[k]),
               new |-> <<old_messages[k]>> \o new_messages]
         ELSE [old |-> old_messages, new |-> Tail(new_messages)]
    ELSE [old |-> old_messages, new |-> new_messages]

\* step 4.3: every kept tool message needs its assistant message before it
RECURSIVE RepairToolMessages(_, _, _, _)
RepairToolMessages(new_messages, i, old_messages, cleaned) ==
    IF i > Len(new_messages) THEN [old |-> old_messages, new |-> cleaned]
    ELSE LET msg == new_messages[i] IN
         IF ~IsTool(msg)
         THEN RepairToolMessages(new_messages, i + 1, old_messages, Append(cleaned, msg))
         ELSE IF ~Truthy(msg.tool_call_id)
         THEN RepairToolMessages(new_messages, i + 1, old_messages, cleaned)
         ELSE IF FindAIForToolCall(cleaned, msg.tool_call_id) # 0
         THEN RepairToolMessages(new_messages, i + 1, old_messages, Append(cleaned, msg))
         ELSE LET k == FindAIForToolCall(old_messages, msg.tool_call_id) IN
              IF k # 0
              THEN RepairToolMessages(new_messages, i + 1,
                                      Without(old_messages, old_messages[k]),
                                      cleaned \o <<old_messages[k], msg>>)
              ELSE RepairToolMessages(new_messages, i + 1, old_messages, cleaned)

\* the history holds a system message with a summary section
HasSummary(messages) ==
    \E k \in DOMAIN messages :
        IsSystem(messages[k]) /\ SummaryMarker \in SeqRange(messages[k].content)

\* a merge that puts the new summary after the content of the system message
UpdatedSystemMessageAppend(system_messages, summary) ==
    IF system_messages # <<>>
    THEN SystemMessage(system_messages[1].content \o <<SummaryMarker>> \o summary)
    ELSE SystemMessage(<<SummaryMarker>> \o summary)

\* step 6: the summary is merged into the first system message, replacing
\* an earlier summary
UpdatedSystemMessage(system_messages, summary) ==
    IF system_messages # <<>>
    THEN LET existing == system_messages[1].content
             marks == {k \in DOMAIN existing : existing[k] = SummaryMarker}
             base == IF marks = {} THEN existing
                     ELSE SubSeq(existing, 1, (CHOOSE k \in marks : \A h \in marks : k <= h) - 1)
         IN  SystemMessage(base \o <<SummaryMarker>> \o summary)
    ELSE SystemMessage(<<SummaryMarker>> \o summary)

NoUpdate == <<>>

\* the update summarize_messages returns
SummarizeUpdate(messages, c, summary) ==
    LET non_system_messages == NonSystemMessages(messages)
        n == Len(non_system_messages)
    IN  IF MessagesTokens(messages) <= c.threshold THEN NoUpdate
        ELSE IF n <= c.keep_messages THEN NoUpdate
        ELSE LET r1 == RepairLeadingToolMessage(
                           SubSeq(non_system_messages, 1, n - c.keep_messages),
                           SubSeq(non_system_messages, n - c.keep_messages + 1, n))
                 r2 == RepairToolMessages(r1.new, 1, r1.old, <<>>)
                 updated_system_msg == UpdatedSystemMessage(SystemMessages(messages), summary)
             IN  [messages |-> CleanOrphanedToolCalls(<<updated_system_msg>> \o r2.new)]

(***************************************************************************)
(* Inputs of the environment (LLM replies, retrieval results, questions)   *)
(***************************************************************************)
Questions == {"q"}
ModelQuery == "m"                       \* the query argument the model chose
ReplyKinds == {"standard", "nonstandard", "none"}
Sentinel == "No relevant documents found."
ToolOutputs == {"docs", Sentinel}
\* "none": the structured output is None; "error": the grader call raises
\* (the output cannot be parsed, the request fails)
Grades == {"yes", "no", "none", "error"}
RewriteOutputs == {"r", ""}
SummaryOutputs == {<<"summary">>}
ThresholdValues == {4}                  \* MESSAGE_SUMMARIZATION_THRESHOLD, in units
KeepValues == {2}                       \* MESSAGE_SUMMARIZATION_KEEP_MESSAGES
MaxRetryCountValues == {2, 3}
MaxHistory == 7     \* a new request is issued only while the history is this short

RunIdle ==
    [nodes |-> 0, first_retry |-> -1, prior_retry |-> 0, retrievals |-> 0,
     rewrites |-> 0, yes |-> FALSE, last_grade |-> "", last_retry |-> 0,
     answer_mode |-> "none", last_query |-> "", summaries |-> 0,
     last_output |-> "", prior_summary |-> FALSE, last_reply |-> ""]

GraphIdle ==
    /\ cfg = [use_checkpoint |-> TRUE, use_summarization |-> FALSE,
              threshold |-> 4, keep_messages |-> 2, max_retry_count |-> 3]
    /\ st = EmptyState
    /\ pc = "idle"
    /\ run = RunIdle

\* the integrity-pass harness at rest
IntegIdle ==
    /\ in_msgs = <<>>
    /\ out_msgs = <<>>
    /\ integ_pc = "off"

GraphInit ==
    /\ IntegIdle
    /\ IngestIdle
    /\ ChatIdle
    /\ SvcIdle
    /\ cfg \in [use_checkpoint : BOOLEAN, use_summarization : BOOLEAN,
                threshold : ThresholdValues, keep_messages : KeepValues,
                max_retry_count : MaxRetryCountValues]
    /\ st = EmptyState
    /\ pc = "idle"
    /\ run = RunIdle

\* what a node observes when it starts: the first node of a request records
\* the retry_count it reads
Observe(r, state) ==
    [r EXCEPT !.nodes = @ + 1,
              !.first_retry = IF r.nodes = 0 THEN state.retry_count ELSE @]

\* graph.stream / graph.invoke with the initial state of a new user turn
InvokeGraph(question) ==
    /\ pc \in {"idle", "END"}
    /\ Len(st.messages) <= MaxHistory
    /\ LET base == IF cfg.use_checkpoint THEN st ELSE EmptyState IN
       /\ st' = ApplyUpdate(base, InitialState(question))
       /\ run' = [RunIdle EXCEPT !.prior_retry = base.retry_count,
                                  !.prior_summary = HasSummary(base.messages)]
    /\ pc' = EntryNode(cfg)
    /\ UNCHANGED <<cfg, integVars, ingestVars, svcVars>>

\* _query_langgraph_stream: a new user turn on the thread
Invoke(question) ==
    /\ InvokeGraph(question)
    /\ UNCHANGED chatVars

SummarizeMessages(summary) ==
    /\ pc = "summarize_messages"
    /\ LET update == SummarizeUpdate(st.messages, cfg, summary) IN
       /\ st' = ApplyUpdate(st, update)
       /\ run' = [Observe(run, st) EXCEPT
                     !.summaries = IF update = NoUpdate THEN @ ELSE @ + 1]
    /\ pc' = "generate_query_or_respond"
    /\ UNCHANGED <<cfg, integVars, ingestVars, chatVars, svcVars>>

\* a tool-call id that no message of the history carries (uuid4 or an id
\* generated by the model)
FreshId(messages) ==
    LET used == UNION {IdsOf(messages[k].tool_calls) : k \in DOMAIN messages}
                  \cup {messages[k].tool_call_id : k \in DOMAIN messages}
        n == CHOOSE c \in 1..(Len(messages) + 1) :
                /\ ToString(c) \notin used
                /\ \A d \in 1..(c - 1) : ToString(d) \in used
    IN  ToString(n)

\* a node that returns the tool call with the query argument of the model
ModelResponseNoOverwrite(kind, state) ==
    LET call_id == FreshId(state.messages) IN
    IF kind = "nonstandard" THEN AIMessage(<<"reply">>, <<>>)
    ELSE AIMessage(<<>>, <<ToolCall(call_id, ModelQuery)>>)

\* the reply of the model in generate_query_or_respond, after the forced
\* tool call and the overwrite of the query argument
ModelResponse(kind, state) ==
    LET call_id == FreshId(state.messages)
        cq == state.current_query
        msgs == CleanOrphanedToolCalls(state.messages)
        last_content == IF msgs # <<>> /\ msgs[Len(msgs)].content # <<>>
                        THEN msgs[Len(msgs)].content[1] ELSE ""
        query_text == IF cq # "" THEN cq ELSE last_content
    IN  CASE kind = "standard" ->
                AIMessage(<<>>, <<ToolCall(call_id, IF cq # "" THEN cq ELSE ModelQuery)>>)
          [] kind = "nonstandard" -> AIMessage(<<"reply">>, <<>>)
          [] kind = "none" -> AIMessage(<<>>, <<ToolCall(call_id, query_text)>>)

GenerateQueryOrRespond(kind) ==
    /\ pc = "generate_query_or_respond"
    /\ st' = ApplyUpdate(st, [messages |-> <<ModelResponse(kind, st)>>])
    /\ pc' = ToolsCondition(st'.messages)
    /\ run' = [Observe(run, st) EXCEPT !.last_reply = kind]
    /\ UNCHANGED <<cfg, integVars, ingestVars, chatVars, svcVars>>

\* ToolNode: one ToolMessage per tool call of the last assistant message
ToolResults(ai, output) ==
    [k \in DOMAIN ai.tool_calls |-> ToolMessage(<<output>>, ai.tool_calls[k].id)]

\* the retrieve node followed by its conditional edge grade_documents; an
\* exception of the grader is not caught: the step fails, its writes are
\* dropped and the run stops
RetrieveAndGrade(output, grade) ==
    /\ pc = "retrieve"
    /\ LET ai == st.messages[Len(st.messages)] IN
       IF grade = "error"
       THEN /\ st' = st
            /\ run' = [Observe(run, st) EXCEPT !.last_grade = grade,
                                               !.last_retry = st.retry_count,
                                               !.last_output = output]
            /\ pc' = "idle"
       ELSE /\ st' = ApplyUpdate(st, [messages |-> ToolResults(ai, output)])
            /\ run' = [Observe(run, st) EXCEPT !.retrievals = @ + 1,
                                               !.yes = @ \/ grade = "yes",
                                               !.last_grade = grade,
                                               !.last_retry = st.retry_count,
                                               !.last_query = ai.tool_calls[1].query,
                                               !.last_output = output]
            /\ pc' = GradeRoute(grade, st.retry_count)
    /\ UNCHANGED <<cfg, integVars, ingestVars, chatVars, svcVars>>

RewriteQuestion(rewritten) ==
    /\ pc = "rewrite_question"
    /\ st' = ApplyUpdate(st, [messages |-> <<HumanMessage(ContentOf(rewritten))>>,
                              current_query |-> rewritten,
                              retry_count |-> st.retry_count + 1])
    /\ run' = [Observe(run, st) EXCEPT !.rewrites = @ + 1]
    /\ pc' = EntryNode(cfg)
    /\ UNCHANGED <<cfg, integVars, ingestVars, chatVars, svcVars>>

GenerateAnswer ==
    /\ pc = "generate_answer"
    /\ LET mode == AnswerMode(st.retry_count) IN
       /\ st' = ApplyUpdate(st, [messages |-> <<AIMessage(<<mode>>, <<>>)>>,
                                 retry_count |-> 0,
                                 no_relevant_found |-> FALSE])
       /\ run' = [Observe(run, st) EXCEPT !.answer_mode = mode]
    /\ pc' = "END"
    /\ UNCHANGED <<cfg, integVars, ingestVars, chatVars, svcVars>>

\* an LLM call raises or the client goes away: the run stops and the thread
\* keeps the state written by the last completed node
AbandonRun ==
    /\ pc \notin {"idle", "END"}
    /\ pc' = "idle"
    /\ UNCHANGED <<cfg, st, run, integVars, ingestVars, chatVars, svcVars>>

GraphNext ==
    \/ \E q \in Questions : Invoke(q)
    \/ \E summary \in SummaryOutputs : SummarizeMessages(summary)
    \/ \E kind \in ReplyKinds : GenerateQueryOrRespond(kind)
    \/ \E output \in ToolOutputs, grade \in Grades : RetrieveAndGrade(output, grade)
    \/ \E rewritten \in RewriteOutputs : RewriteQuestion(rewritten)
    \/ GenerateAnswer
    \/ AbandonRun

SpecGraph == GraphInit /\ [][GraphNext]_vars


(***************************************************************************)
(* Properties of the retrieval graph                                       *)
(***************************************************************************)
\* C1: for every chat request, the retry_count read by the first node that
\* runs for the request is 0, whatever the checkpoint of the thread held
\* (a raised retry_count, an abandoned run).
C1_FirstNodeSeesRetryZero ==
    /\ run.first_retry \in {-1, 0}
    /\ (run.nodes = 0 /\ pc \notin {"idle", "END"}) => st.retry_count = 0

\* a request whose thread was checkpointed with a raised retry_count by an
\* abandoned run, and whose first node has run
C1_Witness ==
    /\ cfg.use_checkpoint
    /\ run.prior_retry > 0
    /\ run.nodes >= 1
    /\ run.first_retry = 0

\* C4: when the grader answers no with retry_count >= 2, the run goes to
\* generate_answer and generate_answer runs in no-relevant mode, so the
\* answer of the run is the "no relevant content" reply.
C4_ExhaustedRunAnswersNoRelevant ==
    (run.last_grade = "no" /\ run.last_retry >= 2)
        => /\ pc \in {"generate_answer", "END", "idle"}
           /\ run.answer_mode \in {"none", "no_relevant"}

\* C5 as stated: a run in which the grader never answers yes performs
\* exactly two retrievals and exactly one rewrite before generate_answer is
\* entered.
C5_TwoRetrievalsOneRewrite ==
    (pc = "generate_answer" /\ ~run.yes)
        => (run.retrievals = 2 /\ run.rewrites = 1)

\* C5 amended: a run in which the grader never answers yes performs exactly
\* three retrievals and exactly two rewrites before generate_answer is
\* entered.
C5_ThreeRetrievalsTwoRewrites ==
    (pc = "generate_answer" /\ ~run.yes)
        => (run.retrievals = 3 /\ run.rewrites = 2)

\* generate_answer entered by a run whose grader never answered yes
C5_Witness ==
    /\ pc = "generate_answer"
    /\ ~run.yes
    /\ run.last_grade = "no"

\* C6: in every run at most MAX_RETRY_COUNT - 1 rewrites are executed and
\* retry_count never exceeds MAX_RETRY_COUNT, the configured value.
C6_RewritesBoundedByConfig ==
    /\ run.rewrites <= cfg.max_retry_count - 1
    /\ st.retry_count <= cfg.max_retry_count


(***************************************************************************)
(* Specification of the integrity pass: the pass applied to every bounded  *)
(* message list over a small alphabet of messages.                         *)
(***************************************************************************)
MaxMsgs == 3

Text == <<"text">>
InputToolCalls ==
    { <<ToolCall("a", "q")>>, <<ToolCall("b", "q")>>,
      <<ToolCall("a", "q"), ToolCall("b", "q")>>,
      <<ToolCall(NoneId, "q")>>,
      <<ToolCall(EmptyId, "q"), ToolCall("a", "q")>> }
InputMessages ==
    {SystemMessage(Text), HumanMessage(Text)}
    \cup {AIMessage(c, tcs) : c \in {<<>>, Text}, tcs \in InputToolCalls \cup {<<>>}}
    \cup {ToolMessage(Text, id) : id \in {"a", "b", NoneId, EmptyId}}

BoundedSeqs(S, n) == UNION {[1..k -> S] : k \in 0..n}

IntegInit ==
    /\ in_msgs \in BoundedSeqs(InputMessages, MaxMsgs)
    /\ out_msgs = <<>>
    /\ integ_pc = "input"
    /\ GraphIdle
    /\ IngestIdle
    /\ ChatIdle
    /\ SvcIdle

\* a node calls _clean_orphaned_tool_calls on its message list
RunCleanOrphaned ==
    /\ integ_pc = "input"
    /\ out_msgs' = CleanOrphanedToolCalls(in_msgs)
    /\ integ_pc' = "done"
    /\ UNCHANGED <<in_msgs, graphVars, ingestVars, chatVars, svcVars>>

IntegNext == RunCleanOrphaned

SpecInteg == IntegInit /\ [][IntegNext]_vars

\* first position after i that holds a user or assistant message (or Len + 1)
RECURSIVE NextTurn(_, _)
NextTurn(msgs, j) ==
    IF j > Len(msgs) \/ IsAI(msgs[j]) \/ IsHuman(msgs[j]) THEN j
    ELSE NextTurn(msgs, j + 1)

\* tool messages answering id between the assistant message at i and the next turn
Answers(msgs, i, id) ==
    {j \in (i + 1)..(NextTurn(msgs, i + 1) - 1) :
        IsTool(msgs[j]) /\ msgs[j].tool_call_id = id}

PairedExactlyOnce(msgs) ==
    \A i \in DOMAIN msgs :
        IsAI(msgs[i]) =>
            \A id \in IdsOf(msgs[i].tool_calls) : Cardinality(Answers(msgs, i, id)) = 1

\* C2: in every list produced by the integrity pass, each tool-call id of each
\* assistant message is answered by exactly one following tool message with the
\* identical tool_call_id, before the next user or assistant message.
C2_EveryToolCallAnsweredOnce ==
    integ_pc = "done" => PairedExactlyOnce(out_msgs)

(***************************************************************************)
(* Specification of ingestion, deletion and retrieval on the vector store  *)
(***************************************************************************)
MaxChunks == 2      \* child chunks of a file
BatchSize == 1      \* batch_size of the upsert loop, scaled to MaxChunks
MaxRuns == 2        \* ingestion tasks started in a behaviour
TopKValues == {2}   \* HYBRID_RETRIEVER_TOP_K / RETRIEVAL_K: documents a search returns at most

\* a file is the list of its parents' child counts
FileShapes == {s \in BoundedSeqs(1..MaxChunks, MaxChunks) : SumSeq(s) <= MaxChunks}

IngestInit ==
    /\ IntegIdle
    /\ GraphIdle
    /\ ChatIdle
    /\ SvcIdle
    /\ icfg \in [mode : {"local", "cloud"}, parent_child : BOOLEAN, hybrid : BOOLEAN,
                 top_k : TopKValues]
    /\ files \in {f \in [DocIds -> FileShapes] : f["d2"] = <<1>>}
    /\ documents = [d \in DocIds |->
                      [user_id |-> Owner(d), status |-> "processing", chunk_count |-> 0,
                       page_count |-> 0]]
    /\ jobs = [d \in DocIds |-> JobIdle]
    /\ vectors = EmptyBag
    /\ parent_child_maps = {}
    /\ obs = ObsIdle

\* obs.ops and obs.retrieved describe the step just taken: a step that issues
\* no vector operation and retrieves nothing leaves them empty
Quiet(o) == [o EXCEPT !.ops = {}, !.retrieved = ObsIdle.retrieved]

\* POST /api/documents/{doc_id}/process: the task is queued for the owner.
\* Tasks of different documents write disjoint store entries and table rows;
\* they are taken one at a time.
ProcessDocument(user_id, d) ==
    /\ obs.runs < MaxRuns
    /\ documents[d].user_id = user_id
    /\ \A e \in DocIds : jobs[e].pc = "idle"
    /\ jobs' = [jobs EXCEPT ![d] = [JobIdle EXCEPT !.pc = "load", !.user_id = user_id]]
    /\ obs' = [Quiet(obs) EXCEPT !.runs = @ + 1, !.fresh[d] = FALSE,
                                 !.deleted[d] = FALSE]
    /\ UNCHANGED <<icfg, files, documents, vectors, parent_child_maps, integVars, graphVars, chatVars, svcVars>>

\* parent ids somebody holds
UsedParentIds ==
    {r.parent_id : r \in parent_child_maps} \cup {v.parent_id : v \in BagToSet(vectors)}
        \cup UNION {jobs[d].parents : d \in DocIds}

\* process_document steps 1-3: read, clean and split the file
LoadAndSplit(d) ==
    /\ jobs[d].pc = "load"
    /\ LET shape == files[d]
           parent_ids == IF icfg.parent_child
                         THEN FreshSeq(UsedParentIds, Len(shape)) ELSE <<>>
           children == ChildDocuments(shape, parent_ids, icfg.parent_child)
       IN  IF ~icfg.parent_child /\ children = <<>>
           THEN /\ documents' = MarkDocumentError(documents, d)
                /\ jobs' = [jobs EXCEPT ![d] = JobIdle]
           ELSE /\ jobs' = [jobs EXCEPT ![d] =
                              [@ EXCEPT !.pc = IF icfg.parent_child
                                               THEN "delete_parent_map" ELSE "upsert",
                                        !.children = children,
                                        !.parents = SeqRange(parent_ids)]]
                /\ UNCHANGED documents
    /\ obs' = Quiet(obs)
    /\ UNCHANGED <<icfg, files, vectors, parent_child_maps, integVars, graphVars, chatVars, svcVars>>

AfterSaveParentMap(job) ==
    IF job.children = <<>> THEN "mark_active" ELSE "upsert"

DeleteParentMap(d) ==
    /\ jobs[d].pc = "delete_parent_map"
    /\ parent_child_maps' = DeleteParentMapRows(parent_child_maps, jobs[d].user_id, d)
    /\ jobs' = [jobs EXCEPT ![d].pc = IF jobs[d].parents = {}
                                      THEN AfterSaveParentMap(jobs[d])
                                      ELSE "insert_parent_map"]
    /\ obs' = Quiet(obs)
    /\ UNCHANGED <<icfg, files, documents, vectors, integVars, graphVars, chatVars, svcVars>>

InsertParentMap(d) ==
    /\ jobs[d].pc = "insert_parent_map"
    /\ parent_child_maps' =
          InsertParentMapRows(parent_child_maps, jobs[d].user_id, d, jobs[d].parents)
    /\ jobs' = [jobs EXCEPT ![d].pc = AfterSaveParentMap(jobs[d])]
    /\ obs' = Quiet(obs)
    /\ UNCHANGED <<icfg, files, documents, vectors, integVars, graphVars, chatVars, svcVars>>

\* one iteration of the upsert loop
UpsertBatch(d) ==
    /\ jobs[d].pc = "upsert"
    /\ LET job == jobs[d]
           n == Len(job.children)
           last == IF job.next + BatchSize - 1 < n THEN job.next + BatchSize - 1 ELSE n
           batch == SubSeq(job.children, job.next, last)
       IN  /\ vectors' = AddDocuments(vectors, VectorStoreOf(icfg.mode, job.user_id),
                                      job.user_id, d, batch)
           /\ jobs' = [jobs EXCEPT ![d].next = last + 1,
                                   ![d].pc = IF last >= n THEN "mark_active" ELSE "upsert"]
    /\ obs' = Quiet(obs)
    /\ UNCHANGED <<icfg, files, documents, parent_child_maps, integVars, graphVars, chatVars, svcVars>>

\* mark_document_active(doc_id, len(documents)); the page_count update names
\* no allowed field and writes nothing
MarkActive(d) ==
    /\ jobs[d].pc = "mark_active"
    /\ LET active == MarkDocumentActive(documents, d, Len(jobs[d].children))
           page_count == PageCount(files[d])
       IN  documents' = IF page_count # 0
                        THEN UpdateDocument(active, d, "page_count", page_count)
                        ELSE active
    /\ jobs' = [jobs EXCEPT ![d] = JobIdle]
    /\ obs' = [Quiet(obs) EXCEPT !.fresh[d] = ~jobs[d].raced, !.successes[d] = @ + 1]
    /\ UNCHANGED <<icfg, files, vectors, parent_child_maps, integVars, graphVars, chatVars, svcVars>>

\* a step raises: process_document returns False and the task marks the
\* document as error; what was written stays
FailIngest(d) ==
    /\ jobs[d].pc # "idle"
    /\ documents' = MarkDocumentError(documents, d)
    /\ jobs' = [jobs EXCEPT ![d] = JobIdle]
    /\ obs' = Quiet(obs)
    /\ UNCHANGED <<icfg, files, vectors, parent_child_maps, integVars, graphVars, chatVars, svcVars>>

\* DELETE /api/documents/{doc_id}/delete-vectors
DeleteDocumentVectors(user_id, d) ==
    /\ documents[d].user_id = user_id
    /\ LET filter == StrategyDeleteFilter(icfg.mode, user_id, d) IN
       /\ vectors' = DeleteEntries(vectors, Query(VectorStoreOf(icfg.mode, user_id), filter))
       /\ obs' = [Quiet(obs) EXCEPT
                     !.ops = {VectorOp("delete", icfg.mode, user_id, filter)},
                     !.fresh[d] = FALSE]
       /\ jobs' = [jobs EXCEPT ![d].raced = (jobs[d].pc # "idle")]
    /\ UNCHANGED <<icfg, files, documents, parent_child_maps, integVars, graphVars, chatVars, svcVars>>

\* DocumentDAO.delete_document: UPDATE documents SET status = 'deleted'
MarkDocumentDeleted(docs, doc_id) == [docs EXCEPT ![doc_id].status = "deleted"]

\* DELETE /documents/{doc_id} of the backend: DocumentService.delete_document
\* deletes the vectors of the document and marks its row as deleted, whatever
\* the status of the document; the delete-vectors request forwarded to the
\* RAG service afterwards repeats the same vector delete.  obs.deleted
\* records that the request returned success and no later ingestion of the
\* document was requested.
DeleteDocument(user_id, d) ==
    /\ documents[d].user_id = user_id
    /\ LET filter == StrategyDeleteFilter(icfg.mode, user_id, d) IN
       /\ vectors' = DeleteEntries(vectors, Query(VectorStoreOf(icfg.mode, user_id), filter))
       /\ obs' = [Quiet(obs) EXCEPT
                     !.ops = {VectorOp("delete", icfg.mode, user_id, filter)},
                     !.fresh[d] = FALSE,
                     !.deleted[d] = TRUE]
       /\ jobs' = [jobs EXCEPT ![d].raced = (jobs[d].pc # "idle")]
    /\ documents' = MarkDocumentDeleted(documents, d)
    /\ UNCHANGED <<icfg, files, parent_child_maps, integVars, graphVars, chatVars, svcVars>>

Subsets(S, k) == {T \in SUBSET S : Cardinality(T) <= k}

ToolOutput(items) == IF items = {} THEN "No relevant documents found." ELSE "docs"

\* the retrieve_documents tool of the graph built for user_id
Retrieve(user_id) ==
    LET store == VectorStoreOf(icfg.mode, user_id)
        filter == RetrieverFilter(icfg.mode, user_id)
        bm25 == icfg.hybrid /\ icfg.mode = "local"
        bm25_docs == IF bm25 THEN Query(store, Bm25Where(user_id)) ELSE {}
        parent_map == IF icfg.hybrid /\ icfg.parent_child
                      THEN ParentMapForUser(parent_child_maps, user_id) ELSE {}
    IN  \E child_docs \in Subsets(Query(store, filter) \cup bm25_docs, icfg.top_k) :
           LET items == ProjectToParents(child_docs, parent_map) IN
           obs' = [obs EXCEPT
                     !.ops = {VectorOp("search", icfg.mode, user_id, filter)}
                               \cup (IF bm25_docs # {}
                                     THEN {VectorOp("get", icfg.mode, user_id, Bm25Where(user_id))}
                                     ELSE {}),
                     !.retrieved = [user |-> user_id, items |-> items,
                                    output |-> ToolOutput(items)]]

\* a search writes nothing but obs: a second search in a row is the same
\* search taken from the same store
RetrieveDocuments(user_id) ==
    /\ obs.retrieved.user = ""
    /\ Retrieve(user_id)
    /\ UNCHANGED <<icfg, files, documents, jobs, vectors, parent_child_maps,
                   integVars, graphVars, chatVars, svcVars>>

\* the query path without graph: vector_service.search_with_score
SearchWithScore(user_id) ==
    /\ obs.retrieved.user = ""
    /\ LET filter == StrategySearchFilter(icfg.mode, user_id) IN
       \E docs \in Subsets(Query(VectorStoreOf(icfg.mode, user_id), filter), icfg.top_k) :
          obs' = [obs EXCEPT
                    !.ops = {VectorOp("search", icfg.mode, user_id, filter)},
                    !.retrieved = [user |-> user_id,
                                   items |-> ProjectToParents(docs, {}),
                                   output |-> ""]]
    /\ UNCHANGED <<icfg, files, documents, jobs, vectors, parent_child_maps,
                   integVars, graphVars, chatVars, svcVars>>

IngestNext ==
    \/ \E u \in Users, d \in DocIds : ProcessDocument(u, d)
    \/ \E d \in DocIds : LoadAndSplit(d)
    \/ \E d \in DocIds : DeleteParentMap(d)
    \/ \E d \in DocIds : InsertParentMap(d)
    \/ \E d \in DocIds : UpsertBatch(d)
    \/ \E d \in DocIds : MarkActive(d)
    \/ \E d \in DocIds : FailIngest(d)
    \/ \E u \in Users, d \in DocIds : DeleteDocumentVectors(u, d)
    \/ \E u \in Users : RetrieveDocuments(u)
    \/ \E u \in Users : SearchWithScore(u)

SpecIngest == IngestInit /\ [][IngestNext]_vars

(***************************************************************************)
(* Properties of ingestion, deletion and retrieval                         *)
(***************************************************************************)
\* the entries of the store that carry doc_id
EntriesOf(d) == {v \in BagToSet(vectors) : v.doc_id = d}

\* C3: running ingestion a second time for the same doc_id leaves the store
\* with the child-chunk set of the first run: every chunk of the file is
\* held once, none is duplicated.
C3_ReingestionKeepsChunkSet ==
    \A d \in DocIds :
        (obs.fresh[d] /\ obs.successes[d] >= 2)
            => /\ ChunksInStore(vectors, d) = SumSeq(files[d])
               /\ \A v \in EntriesOf(d) : vectors[v] = 1

C8_RetrievalStaysInTenant ==
    \A item \in obs.retrieved.items : item.user_id = obs.retrieved.user

\* B retrieved a parent block of its own while the shared index and the
\* parent map table hold A's chunks and parents
C8_Witness ==
    /\ icfg.mode = "cloud"
    /\ obs.retrieved.user = "B"
    /\ \E item \in obs.retrieved.items : item.kind = "parent"
    /\ \E v \in BagToSet(vectors) : v.user_id = "A"
    /\ \E r \in parent_child_maps : r.user_id = "A"

\* C9: after every successful ingestion of a doc_id, first or repeated, the
\* chunk_count of the document equals the number of child chunks the store
\* holds for that doc_id (stated for the runs no delete request ran into).
C9_ChunkCountMatchesStore ==
    \A d \in DocIds :
        obs.fresh[d] => documents[d].chunk_count = ChunksInStore(vectors, d)

\* C10: after a successful ingestion every child chunk in the store has a
\* parent_id that exists in the parent map of the same (user_id, doc_id).
C10_ChildrenHaveParents ==
    \A d \in DocIds :
        obs.fresh[d] =>
            \A v \in EntriesOf(d) :
                v.parent_id # 0 =>
                    \E r \in parent_child_maps :
                        /\ r.user_id = v.user_id
                        /\ r.doc_id = v.doc_id
                        /\ r.parent_id = v.parent_id

\* the rows of the parent map stored for a document
MapRows(d) == {r \in parent_child_maps : r.doc_id = d /\ r.user_id = Owner(d)}

\* C11: saving a parent map is atomic: no step takes the prior rows of
\* (user_id, doc_id) away without putting the rows of the new map in place, so
\* neither a reader nor a failure can find the map deleted but not
\* re-inserted.
C11_SaveParentMapAtomic ==
    [][\A d \in DocIds :
          (MapRows(d) # {} /\ jobs[d].parents # {}) => MapRows(d)' # {}]_vars

(***************************************************************************)
(* Ingestion under its scheduling: a queued background task runs to its    *)
(* end (it returns or raises)                                              *)
(***************************************************************************)
JobStep(d) ==
    \/ LoadAndSplit(d)
    \/ DeleteParentMap(d)
    \/ InsertParentMap(d)
    \/ UpsertBatch(d)
    \/ MarkActive(d)
    \/ FailIngest(d)

SpecIngestFair ==
    IngestInit /\ [][IngestNext]_vars /\ \A d \in DocIds : WF_vars(JobStep(d))

C13_GraderFailureRoutesAsNo ==
    [][(pc = "retrieve" /\ run'.nodes = run.nodes + 1
           /\ run'.last_grade \in {"none", "error"})
          => pc' = GradeRoute("no", st.retry_count)]_vars

\* C14: whenever the retrieve tool returns the sentinel "No relevant
\* documents found.", the grade is no; the run goes to rewrite_question if
\* retry budget remains (retry_count < 2) and otherwise to generate_answer,
\* where it ends with the no-relevant answer.
C14_SentinelGradesNo ==
    run.last_output = Sentinel =>
        /\ run.last_grade = "no"
        /\ pc = "rewrite_question" => run.last_retry < 2
        /\ pc = "generate_answer" => run.last_retry >= 2
        /\ run.answer_mode \in {"none", "no_relevant"}

(***************************************************************************)
(* Chat requests: the SSE endpoint of the backend (graph path and chain    *)
(* path) and the background task of the RAG service                        *)
(***************************************************************************)
MaxRequests == 2        \* chat requests of a behaviour
MaxAnswerChunks == 2    \* 50-character pieces of an answer

Paths == {"sse", "task", "chain"}

UserMessage == [role |-> "user", content |-> "question"]
AssistantMessage(content) == [role |-> "assistant", content |-> content]

\* _query_langgraph_stream: final_answer is the content written by the
\* generate_answer node, "" when that node did not run
FinalAnswer(r) == IF r.answer_mode = "none" THEN "" ELSE r.answer_mode

\* a stream that ends after its chunks
DeliveryPlanNoComplete(chunks) == <<"thinking">> \o [k \in 1..chunks |-> "chunk"]

\* what query_stream yields once the answer is known: the thinking process,
\* the answer in pieces, the complete record
DeliveryPlan(chunks) ==
    <<"thinking">> \o [k \in 1..chunks |-> "chunk"] \o <<"complete">>

\* number of pieces an answer is cut into
ChunkCounts(answer) == IF answer = "" THEN {0} ELSE 1..MaxAnswerChunks

ChatInit ==
    /\ IntegIdle
    /\ IngestIdle
    /\ ChatIdle
    /\ SvcIdle
    /\ cfg \in [use_checkpoint : BOOLEAN, use_summarization : {FALSE},
                threshold : ThresholdValues, keep_messages : KeepValues,
                max_retry_count : {3}]
    /\ st = EmptyState
    /\ pc = "idle"
    /\ run = RunIdle

\* POST /chat/message (backend, graph path) and the chat task of the RAG
\* service: the graph is started on the thread of the session
SendMessage(path, question) ==
    /\ path \in {"sse", "task"}
    /\ chat.pc \in {"idle", "done"}
    /\ chat.requests < MaxRequests
    /\ InvokeGraph(question)
    /\ chat' = [pc |-> "graph", path |-> path, events |-> <<>>,
                saved |-> IF path = "sse" THEN <<UserMessage>> ELSE <<>>,
                plan |-> <<>>, requests |-> chat.requests + 1]

\* POST /chat/message with USE_LANGGRAPH_RAG off: retrieval, then the chain
SendMessageChain(chunks) ==
    /\ chat.pc \in {"idle", "done"}
    /\ pc \in {"idle", "END"}
    /\ chat.requests < MaxRequests
    /\ chat' = [pc |-> "streaming", path |-> "chain", events |-> <<>>,
                saved |-> <<UserMessage>>, plan |-> DeliveryPlan(chunks),
                requests |-> chat.requests + 1]
    /\ UNCHANGED <<integVars, graphVars, ingestVars, svcVars>>

\* the graph has ended: _query_langgraph_stream starts to yield
StartDelivery(chunks) ==
    /\ chat.pc = "graph"
    /\ chat.path = "sse"
    /\ pc = "END"
    /\ chunks \in ChunkCounts(FinalAnswer(run))
    /\ chat' = [chat EXCEPT !.pc = "streaming", !.plan = DeliveryPlan(chunks)]
    /\ UNCHANGED <<integVars, graphVars, ingestVars, svcVars>>

\* generate_sse_stream: one turn of the loop over query_stream. A record is
\* turned into an event (a thinking record without steps and a chunk record
\* without content are skipped); the assistant message is saved when the
\* complete record arrives and the loop is left after it; the loop also ends
\* when query_stream is exhausted
StreamEvent(shown) ==
    /\ chat.pc = "streaming"
    /\ IF chat.plan = <<>>
       THEN /\ shown
            /\ chat' = [chat EXCEPT !.pc = "done"]
       ELSE LET type == Head(chat.plan) IN
            /\ type = "complete" => shown
            /\ chat' = [chat EXCEPT
                  !.events = IF shown THEN Append(@, type) ELSE @,
                  !.saved = IF type = "complete"
                            THEN Append(@, AssistantMessage("answer")) ELSE @,
                  !.plan = IF type = "complete" THEN <<>> ELSE Tail(@),
                  !.pc = IF type = "complete" THEN "done" ELSE @]
    /\ UNCHANGED <<integVars, graphVars, ingestVars, svcVars>>

\* generate_sse_stream, except Exception: the graph raised (graph path), the
\* retrieval or the chain raised (chain path), or save_message raised
StreamError ==
    /\ \/ chat.pc = "graph" /\ chat.path = "sse" /\ pc = "idle"
       \/ /\ chat.pc = "streaming"
          /\ chat.plan # <<>>
          /\ chat.path = "chain" \/ Head(chat.plan) = "complete"
    /\ chat' = [chat EXCEPT !.events = Append(@, "error"), !.plan = <<>>,
                            !.pc = "done"]
    /\ UNCHANGED <<integVars, graphVars, ingestVars, svcVars>>

\* _process_chat_task: the result of rag_service.query is saved
TaskComplete ==
    /\ chat.pc = "graph"
    /\ chat.path = "task"
    /\ pc = "END"
    /\ chat' = [chat EXCEPT !.saved = Append(@, AssistantMessage("answer")),
                            !.pc = "done"]
    /\ UNCHANGED <<integVars, graphVars, ingestVars, svcVars>>

\* _process_chat_task, except Exception: an assistant message holding the
\* error text is saved
TaskError ==
    /\ chat.pc = "graph"
    /\ chat.path = "task"
    /\ pc = "idle"
    /\ chat' = [chat EXCEPT !.saved = Append(@, AssistantMessage("error")),
                            !.pc = "done"]
    /\ UNCHANGED <<integVars, graphVars, ingestVars, svcVars>>

ChatNext ==
    \/ \E path \in Paths, q \in Questions : SendMessage(path, q)
    \/ \E chunks \in 0..MaxAnswerChunks : SendMessageChain(chunks)
    \/ \E kind \in ReplyKinds : GenerateQueryOrRespond(kind)
    \/ \E output \in ToolOutputs, grade \in Grades : RetrieveAndGrade(output, grade)
    \/ \E rewritten \in RewriteOutputs : RewriteQuestion(rewritten)
    \/ GenerateAnswer
    \/ AbandonRun
    \/ \E chunks \in 0..MaxAnswerChunks : StartDelivery(chunks)
    \/ \E shown \in BOOLEAN : StreamEvent(shown)
    \/ StreamError
    \/ TaskComplete
    \/ TaskError

SpecChat == ChatInit /\ [][ChatNext]_vars

\* C15: when an LLM call fails during a graph invocation, the chat request
\* ends with an error event and no assistant message is saved for it.
C15_LlmFailureEndsInErrorEvent ==
    (chat.pc = "done" /\ chat.path \in {"sse", "task"} /\ pc = "idle")
        => /\ chat.events # <<>>
           /\ chat.events[Len(chat.events)] = "error"
           /\ \A k \in DOMAIN chat.saved : chat.saved[k].role # "assistant"

\* C16: in every successful chat stream exactly one complete event is
\* emitted and it is the last event: every thinking and chunk event precedes
\* it and nothing follows it.
C16_CompleteIsLastAndUnique ==
    LET ev == chat.events IN
    /\ \A k \in DOMAIN ev : ev[k] = "complete" => k = Len(ev)
    /\ (chat.pc = "done" /\ chat.path \in {"sse", "chain"}
           /\ \A k \in DOMAIN ev : ev[k] # "error")
          => (ev # <<>> /\ ev[Len(ev)] = "complete")

\* a finished stream of the graph path that carried a thinking event and
\* two chunks before its complete event
C16_Witness ==
    /\ chat.pc = "done"
    /\ chat.path = "sse"
    /\ chat.events = <<"thinking", "chunk", "chunk", "complete">>

(***************************************************************************)
(* Properties of the summarization update                                  *)
(***************************************************************************)
\* number of summary sections of a system message
MarkerCount(m) == Cardinality({k \in DOMAIN m.content : m.content[k] = SummaryMarker})

LongKeepValues == {4}    \* MESSAGE_SUMMARIZATION_KEEP_MESSAGES of a longer window

\* a thread with a checkpointer and the summarize node, keeping a window
\* that spans two requests
SummaryInit ==
    /\ IntegIdle
    /\ IngestIdle
    /\ ChatIdle
    /\ SvcIdle
    /\ cfg \in [use_checkpoint : {TRUE}, use_summarization : {TRUE},
                threshold : ThresholdValues, keep_messages : LongKeepValues,
                max_retry_count : {3}]
    /\ st = EmptyState
    /\ pc = "idle"
    /\ run = RunIdle

SpecSummary == SummaryInit /\ [][GraphNext]_vars

\* C18: after every summarization the number of non-system messages is
\* MESSAGE_SUMMARIZATION_KEEP_MESSAGES, give or take one for a repaired
\* tool pair.
C18_KeptMessagesWithinOne ==
    [][run'.summaries = run.summaries + 1
         => LET n == Len(NonSystemMessages(st'.messages)) IN
            /\ n >= cfg.keep_messages - 1
            /\ n <= cfg.keep_messages + 1]_vars

IsPrefix(a, b) == Len(a) <= Len(b) /\ SubSeq(b, 1, Len(a)) = a

\* the history a step starts from: the checkpoint of the thread, or nothing
\* when a request arrives on a graph without checkpointer
HistoryBefore ==
    IF pc \in {"idle", "END"} /\ ~cfg.use_checkpoint THEN <<>> ELSE st.messages

\* C19: the messages only grow by appending what a node (or the input)
\* returns, except at a summarization, which replaces the list by one system
\* message with the summary followed by kept messages of the old history;
\* no other update replaces or removes messages.
C19_AppendExceptSummarization ==
    [][IF run'.summaries = run.summaries + 1
       THEN /\ pc = "summarize_messages"
            /\ IsSystem(st'.messages[1])
            /\ SummaryMarker \in SeqRange(st'.messages[1].content)
            /\ \A k \in 2..Len(st'.messages) :
                  /\ ~IsSystem(st'.messages[k])
                  /\ st'.messages[k] \in SeqRange(st.messages)
       ELSE IsPrefix(HistoryBefore, st'.messages)]_vars

\* the history was replaced by a summarization and the next node has
\* appended its message to it
C19_Witness ==
    /\ run.summaries = 1
    /\ pc = "retrieve"
    /\ IsSystem(st.messages[1])
    /\ Len(st.messages) >= 3

(***************************************************************************)
(* Properties of the integrity pass: unmatched tool calls                  *)
(***************************************************************************)
\* tool calls of the assistant message at i that a following tool message
\* answers before the next turn
MatchedCalls(msgs, i) ==
    SelectSeq(msgs[i].tool_calls, LAMBDA tc : Answers(msgs, i, tc.id) # {})

Assistants(msgs) == SelectSeq(msgs, IsAI)

\* C20: an assistant message with a tool call that no tool message answers
\* is kept with only its matched tool calls (possibly none) when it has
\* textual content, and is dropped entirely when it has no content.  Stated
\* for lists with one assistant message, whose tool-call ids are strings.
C20_UnmatchedCallsTrimmedOrDropped ==
    integ_pc = "done" =>
        \A i \in DOMAIN in_msgs :
            (/\ Assistants(in_msgs) = <<in_msgs[i]>>
             /\ HasToolCalls(in_msgs[i])
             /\ \A id \in IdsOf(in_msgs[i].tool_calls) : Truthy(id)
             /\ Len(MatchedCalls(in_msgs, i)) < Len(in_msgs[i].tool_calls))
            => Assistants(out_msgs) =
                  IF HasContent(in_msgs[i])
                  THEN <<AIMessage(in_msgs[i].content, MatchedCalls(in_msgs, i))>>
                  ELSE <<>>

\* positions before j that hold a user or assistant message
TurnsBefore(msgs, j) == {k \in 1..(j - 1) : IsAI(msgs[k]) \/ IsHuman(msgs[k])}

\* the tool message at j follows an assistant message that holds a tool
\* call with its tool_call_id
AnswersItsAssistant(msgs, j) ==
    /\ Truthy(msgs[j].tool_call_id)
    /\ TurnsBefore(msgs, j) # {}
    /\ LET i == CHOOSE k \in TurnsBefore(msgs, j) :
                   \A h \in TurnsBefore(msgs, j) : h <= k
       IN  IsAI(msgs[i]) /\ msgs[j].tool_call_id \in IdsOf(msgs[i].tool_calls)

\* C21: after the integrity pass no tool message remains whose tool_call_id
\* is missing or matches no tool call of the assistant message it follows.
C21_NoUnmatchedToolMessage ==
    integ_pc = "done" =>
        \A j \in DOMAIN out_msgs :
            IsTool(out_msgs[j]) => AnswersItsAssistant(out_msgs, j)

(***************************************************************************)
(* Properties of generate_query_or_respond and of the routing              *)
(***************************************************************************)
\* C22: whenever the reply of the model has no tool call in its tool_calls
\* field, generate_query_or_respond returns an assistant message with one
\* retrieve_documents call whose query is current_query and whose id is a
\* non-empty string, and the graph goes to retrieve, not to END.
C22_MissingToolCallIsForced ==
    [][(/\ pc = "generate_query_or_respond"
        /\ run'.nodes = run.nodes + 1
        /\ run'.last_reply \in {"nonstandard", "none"})
       => /\ pc' = "retrieve"
          /\ LET m == st'.messages[Len(st'.messages)] IN
             /\ Len(m.tool_calls) = 1
             /\ m.tool_calls[1].query = st.current_query
             /\ Truthy(m.tool_calls[1].id)]_vars

\* C23 as stated: after a rewrite, the next retrieval of the run is invoked
\* with the rewritten query held by current_query.
C23_RetrievalUsesRewrittenQuery ==
    (run.rewrites >= 1 /\ run.retrievals = run.rewrites + 1)
        => run.last_query = st.current_query

\* C23, amended: after a rewrite that produced a non-empty question, the next
\* retrieval of the run is invoked with exactly that question, whatever
\* query argument the model put in its tool call.
C23_RetrievalUsesNonEmptyRewrite ==
    (run.rewrites >= 1 /\ run.retrievals = run.rewrites + 1
        /\ st.current_query # "")
        => run.last_query = st.current_query

\* the retrieval after a rewrite has run on a tool call the model made with
\* its own query argument
C23_Witness ==
    /\ run.rewrites >= 1
    /\ run.retrievals = run.rewrites + 1
    /\ st.current_query = "r"
    /\ run.last_reply = "standard"
    /\ run.last_query = "r"

\* C24: grade_documents routes to generate_answer when the grade is yes, at
\* any retry_count, and to rewrite_question when the grade is no and
\* retry_count < 2.
C24_GradeRouting ==
    [][(pc = "retrieve" /\ run'.retrievals = run.retrievals + 1)
       => /\ run'.last_grade = "yes" => pc' = "generate_answer"
          /\ (run'.last_grade = "no" /\ st.retry_count < 2)
                => pc' = "rewrite_question"]_vars

\* a yes grade after one rewrite has led to generate_answer
C24_Witness ==
    /\ run.last_grade = "yes"
    /\ run.last_retry = 1
    /\ run.rewrites = 1
    /\ run.retrievals = 2
    /\ pc = "generate_answer"

(***************************************************************************)
(* Properties of document deletion and of failed ingestion runs            *)
(***************************************************************************)
\* ingestion, retrieval and the delete request of the backend
DeleteNext ==
    \/ IngestNext
    \/ \E u \in Users, d \in DocIds : DeleteDocument(u, d)

SpecDelete == IngestInit /\ [][DeleteNext]_vars

\* the document is in the list GET /documents returns to its owner
Listed(d) == documents[d].status # "deleted"

\* C25: after delete_document(doc_id) has returned success, the document is
\* not in the user's document list and the store holds no chunk with that
\* doc_id for a similarity search to return.
C25_DeletedDocumentIsGone ==
    \A d \in DocIds :
        obs.deleted[d] => (~Listed(d) /\ EntriesOf(d) = {})

\* C26: the ingestion of a file without extractable text (zero chunks) ends
\* with the document in status error, never in status active.
C26_EmptyFileNeverActive ==
    \A d \in DocIds : files[d] = <<>> => documents[d].status # "active"

\* C27: when runs for a doc_id failed after some batches were upserted and a
\* later run succeeds, the store holds only the child chunks of the
\* successful run: the leftovers of the failed runs are gone.
C27_LeftoversRemovedBySuccessfulRun ==
    \A d \in DocIds :
        (obs.fresh[d] /\ obs.successes[d] = 1)
            => ChunksInStore(vectors, d) = SumSeq(files[d])

(***************************************************************************)
(* The embedding model loader of VectorStoreService.  loading and loaded   *)
(* are the two flags of the service, active the number of loader threads   *)
(* running _load_embeddings_async, started the number of loader threads    *)
(* started so far, tpc[t] the position of request thread t inside          *)
(* _ensure_embeddings_loaded.  Every read and every write of a flag is a   *)
(* step of its own: the lock is held only by the loader thread, when it    *)
(* publishes its result.                                                   *)
(***************************************************************************)
MaxLoadFailures == 1    \* loads that may raise

LoaderInit ==
    /\ IntegIdle
    /\ GraphIdle
    /\ IngestIdle
    /\ ChatIdle
    /\ SvcIdle

\* _ensure_embeddings_loaded: read _embeddings_loaded, read
\* _embeddings_loading, then poll until loaded or the timeout
EnsureEmbeddingsLoaded(t) ==
    /\ \/ /\ loader.tpc[t] = "idle"
          /\ ~loader.loaded
          /\ loader' = [loader EXCEPT !.tpc[t] = "ensure"]
       \/ /\ loader.tpc[t] = "ensure"
          /\ loader' = [loader EXCEPT
                 !.tpc[t] = IF ~loader.loading THEN "start" ELSE "wait"]
       \/ /\ loader.tpc[t] = "wait"
          /\ loader' = [loader EXCEPT !.tpc[t] = "idle"]
    /\ UNCHANGED <<appVars, conns, ckpt, rq, tokens>>

\* _start_loading_embeddings as called by a request thread: the check of the
\* two flags, then the write of _embeddings_loading and thread.start()
StartLoadingEmbeddings(t) ==
    /\ \/ /\ loader.tpc[t] = "start"
          /\ loader' = [loader EXCEPT
                 !.tpc[t] = IF loader.loading \/ loader.loaded
                            THEN "wait" ELSE "set"]
       \/ /\ loader.tpc[t] = "set"
          /\ loader' = [loader EXCEPT !.loading = TRUE,
                                      !.active = @ + 1,
                                      !.started = @ + 1,
                                      !.tpc[t] = "wait"]
    /\ UNCHANGED <<appVars, conns, ckpt, rq, tokens>>

\* _load_embeddings_async: the model is built, then the result is published
\* under the lock; a load that raises clears _embeddings_loading
LoadEmbeddingsAsync(ok) ==
    /\ loader.active > 0
    /\ IF ok
       THEN loader' = [loader EXCEPT !.loaded = TRUE, !.loading = FALSE,
                                     !.active = @ - 1]
       ELSE /\ loader.failures < MaxLoadFailures
            /\ loader' = [loader EXCEPT !.loading = FALSE, !.active = @ - 1,
                                        !.failures = @ + 1]
    /\ UNCHANGED <<appVars, conns, ckpt, rq, tokens>>

LoaderNext ==
    \/ \E t \in Callers : EnsureEmbeddingsLoaded(t)
    \/ \E t \in Callers : StartLoadingEmbeddings(t)
    \/ \E ok \in BOOLEAN : LoadEmbeddingsAsync(ok)

SpecLoader == LoaderInit /\ [][LoaderNext]_vars

\* C28: with any number of concurrent callers at most one load of the
\* embedding model runs at a time, and once the model is loaded no further
\* load is started.
C28_GuardedOneTimeLoader ==
    /\ [](loader.active <= 1)
    /\ [][loader.loaded => loader'.started = loader.started]_vars

(***************************************************************************)
(* The connection pool of DatabaseManager (PostgreSQL mode).  A connection *)
(* is "free" (not opened yet), "pool" (idle in the pool), "caller" (handed *)
(* out), "dropped" (closed after it failed the liveness check; the pool    *)
(* still counts it as used) or "closed".  pooled tells the connections the *)
(* pool opened from those of _direct_connections; alive is what SELECT 1   *)
(* would answer.                                                           *)
(***************************************************************************)
PoolMax == 2    \* maxconn of the pool

\* _is_connection_alive: SELECT 1 on the connection
IsConnectionAliveAlways(conn) == TRUE

IsConnectionAlive(conn) == conn.alive

\* connections the pool keys as used
UsedByPool == {c \in ConnIds : conns[c].pooled /\ conns[c].loc \in {"caller", "dropped"}}

IdleInPool == {c \in ConnIds : conns[c].loc = "pool"}
Unopened == {c \in ConnIds : conns[c].loc = "free"}

\* psycopg2.connect(normalized_url), recorded in _direct_connections
DirectConnection(cs) ==
    LET n == CHOOSE c \in Unopened : \A o \in Unopened : c <= o
    IN [cs EXCEPT ![n] = [loc |-> "caller", pooled |-> FALSE, alive |-> TRUE,
                          body |-> "", tx |-> "none"]]

PoolInit ==
    /\ IntegIdle
    /\ GraphIdle
    /\ IngestIdle
    /\ ChatIdle
    /\ SvcIdle

\* get_connection: getconn() takes an idle connection or opens one while
\* fewer than maxconn are used; a connection that fails the check is closed
\* and replaced by a direct one; PoolError falls back to a direct connection
GetConnection ==
    /\ Unopened # {}
    /\ IF IdleInPool # {}
       THEN \E c \in IdleInPool :
              IF IsConnectionAlive(conns[c])
              THEN conns' = [conns EXCEPT ![c].loc = "caller",
                                          ![c].body = "", ![c].tx = "none"]
              ELSE conns' = DirectConnection([conns EXCEPT ![c].loc = "dropped"])
       ELSE IF Cardinality(UsedByPool) < PoolMax
            THEN LET n == CHOOSE c \in Unopened : \A o \in Unopened : c <= o
                 IN conns' = [conns EXCEPT ![n] =
                        [loc |-> "caller", pooled |-> TRUE, alive |-> TRUE,
                         body |-> "", tx |-> "none"]]
            ELSE conns' = DirectConnection(conns)
    /\ UNCHANGED <<appVars, loader, ckpt, rq, tokens>>

\* the body of a DAO call inside `with get_cursor()`: it finishes or raises
RunBody(c, outcome) ==
    /\ conns[c].loc = "caller"
    /\ conns[c].body = ""
    /\ conns' = [conns EXCEPT ![c].body = outcome]
    /\ UNCHANGED <<appVars, loader, ckpt, rq, tokens>>

\* a get_cursor that commits whatever the body did
EndTransactionAlwaysCommit(body, alive) ==
    IF alive THEN "committed" ELSE "rolled_back"

\* get_cursor after the yield: conn.commit() when the body finished, and
\* conn.rollback() when the body or the commit raised (a broken connection
\* loses the transaction)
EndTransaction(body, alive) ==
    IF body = "ok" /\ alive THEN "committed" ELSE "rolled_back"

\* the end of get_cursor: the transaction is ended, then return_connection:
\* a direct connection is closed; a pooled one is put back when it passes
\* the check (putconn keeps minconn = 1 idle connection and closes the
\* others) and closed without putconn otherwise
ReturnConnection(c) ==
    /\ conns[c].loc = "caller"
    /\ conns[c].body # ""
    /\ LET ended == [conns EXCEPT
                        ![c].tx = EndTransaction(conns[c].body, conns[c].alive)]
       IN  IF ~conns[c].pooled
           THEN conns' = [ended EXCEPT ![c].loc = "closed"]
           ELSE IF IsConnectionAlive(conns[c])
                THEN conns' = [ended EXCEPT
                         ![c].loc = IF IdleInPool = {} THEN "pool" ELSE "closed"]
                ELSE conns' = [ended EXCEPT ![c].loc = "dropped"]
    /\ UNCHANGED <<appVars, loader, ckpt, rq, tokens>>

\* the server or the network ends a connection
BreakConnection(c) ==
    /\ conns[c].loc \in {"pool", "caller"}
    /\ conns[c].alive
    /\ conns' = [conns EXCEPT ![c].alive = FALSE]
    /\ UNCHANGED <<appVars, loader, ckpt, rq, tokens>>

PoolNext ==
    \/ GetConnection
    \/ \E c \in ConnIds, outcome \in {"ok", "raised"} : RunBody(c, outcome)
    \/ \E c \in ConnIds : ReturnConnection(c)
    \/ \E c \in ConnIds : BreakConnection(c)

SpecPool == PoolInit /\ [][PoolNext]_vars

\* C29: a pooled connection that fails the liveness check is never handed to
\* a caller and never put back into the pool: whenever a pooled connection
\* goes to a caller or back to the idle pool, SELECT 1 succeeds on it.
C29_DeadConnectionNeverHandedNorPooled ==
    [][\A c \in ConnIds :
          /\ (conns[c].pooled /\ conns[c].loc = "pool" /\ conns'[c].loc = "caller")
                => conns[c].alive
          /\ (conns[c].pooled /\ conns[c].loc = "caller" /\ conns'[c].loc = "pool")
                => conns[c].alive]_vars

\* two pooled connections failed the check and were dropped, and a direct
\* connection was opened in place of a pooled one
C29_Witness ==
    \E c, d \in ConnIds :
        /\ c # d
        /\ conns[c].loc = "dropped" /\ conns[d].loc = "dropped"
        /\ \E e \in ConnIds : ~conns[e].pooled /\ conns[e].loc # "free"

(***************************************************************************)
(* Chat requests running at the same time on one thread_id.  Every request *)
(* builds its own graph and its own checkpointer on the same store; a run  *)
(* reads the checkpoint of the thread when graph.stream starts, keeps its  *)
(* channels to itself and saves them as one checkpoint after the input and *)
(* after every node.  stored is the latest checkpoint of the thread,       *)
(* local[r] the channels of run r.                                         *)
(***************************************************************************)
MaxSupersteps == 2      \* nodes a run executes

\* a saver that writes the messages channel only
PutCheckpointMessagesOnly(stored, state) ==
    [stored EXCEPT !.messages = state.messages]

\* checkpointer.put: the checkpoint of the run becomes the latest checkpoint
\* of the thread, all channels at once
PutCheckpoint(stored, state) == state

\* what a node of run r returns: a rewritten question, or the final answer
NodeUpdates(state, r) ==
    {[messages |-> <<HumanMessage(<<"rewrite", r>>)>>,
      current_query |-> "rewrite",
      retry_count |-> state.retry_count + 1],
     [messages |-> <<AIMessage(<<"answer", r>>, <<>>)>>,
      retry_count |-> 0,
      no_relevant_found |-> FALSE]}

CkptInit ==
    /\ IntegIdle
    /\ GraphIdle
    /\ IngestIdle
    /\ ChatIdle
    /\ SvcIdle

\* graph.stream(initial_state, config={"configurable": {"thread_id": ...}}):
\* the checkpoint of the thread is loaded and the input applied to it; the
\* result is saved as the first checkpoint of the run
StreamBegin(r) ==
    /\ \/ /\ ckpt.rpc[r] = "idle"
          /\ ckpt' = [ckpt EXCEPT
                 !.local[r] = ApplyUpdate(ckpt.stored, InitialState(r)),
                 !.rpc[r] = "loaded"]
       \/ /\ ckpt.rpc[r] = "loaded"
          /\ ckpt' = [ckpt EXCEPT
                 !.stored = PutCheckpoint(@, ckpt.local[r]),
                 !.rpc[r] = "running"]
    /\ UNCHANGED <<appVars, loader, conns, rq, tokens>>

\* one node of run r: its update is applied to the channels of the run and
\* the result is saved; the answer ends the run
Superstep(r) ==
    /\ ckpt.rpc[r] = "running"
    /\ \E update \in NodeUpdates(ckpt.local[r], r) :
         /\ "current_query" \in DOMAIN update => ckpt.steps[r] + 1 < MaxSupersteps
         /\ LET state == ApplyUpdate(ckpt.local[r], update) IN
            ckpt' = [ckpt EXCEPT !.local[r] = state,
                                 !.stored = PutCheckpoint(@, state),
                                 !.steps[r] = @ + 1,
                                 !.rpc[r] = IF "current_query" \in DOMAIN update
                                            THEN "running" ELSE "END"]
    /\ UNCHANGED <<appVars, loader, conns, rq, tokens>>

CkptNext ==
    \/ \E r \in Runs : StreamBegin(r)
    \/ \E r \in Runs : Superstep(r)

SpecCkpt == CkptInit /\ [][CkptNext]_vars

C31_PageCountRecorded ==
    \A d \in DocIds :
        obs.fresh[d] =>
            /\ documents[d].status = "active"
            /\ documents[d].chunk_count = SumSeq(files[d])
            /\ documents[d].page_count = PageCount(files[d])

(***************************************************************************)
(* RAGService.query without the graph.  Distances and the threshold are in *)
(* tenths: a score of 8 is the distance 0.8, its similarity 1 - 0.8 = 0.2. *)
(***************************************************************************)
MaxDocs == 2            \* documents search_with_score returns (k)
Distances == {1, 8, 12}
Thresholds == {0, 3, 5}

\* similarity = max(0, 1 - score)
Similarity(score) == IF 10 - score > 0 THEN 10 - score ELSE 0

\* a query that never looks at the similarities
QueryNoThreshold(scores, enabled, threshold) ==
    IF scores = <<>>
    THEN [fallback_mode |-> TRUE, retrieved_docs |-> <<>>]
    ELSE [fallback_mode |-> FALSE,
          retrieved_docs |-> [i \in 1..Len(scores) |-> Similarity(scores[i])]]

\* RAGService.query: should_fallback, then the direct answer or the RAG
\* answer with one retrieved_docs entry per document
QueryDirect(scores, enabled, threshold) ==
    LET sims == [i \in 1..Len(scores) |-> Similarity(scores[i])]
        max_similarity == CHOOSE m \in SeqRange(sims) : \A x \in SeqRange(sims) : x <= m
        should_fallback ==
            IF scores = <<>> THEN TRUE
            ELSE IF enabled THEN max_similarity < threshold
            ELSE FALSE
    IN  IF should_fallback
        THEN [fallback_mode |-> TRUE, retrieved_docs |-> <<>>]
        ELSE [fallback_mode |-> FALSE, retrieved_docs |-> sims]

QueryInit ==
    /\ IntegIdle
    /\ GraphIdle
    /\ IngestIdle
    /\ ChatIdle
    /\ LoaderIdle /\ PoolIdle /\ CkptIdle /\ TokensIdle
    /\ rq \in [pc : {"call"},
               scores : UNION {[1..n -> Distances] : n \in 0..MaxDocs},
               enabled : BOOLEAN,
               threshold : Thresholds,
               result : {[fallback_mode |-> FALSE, retrieved_docs |-> <<>>]}]

\* query(user_id, question) with USE_LANGGRAPH_RAG off
RunQuery ==
    /\ rq.pc = "call"
    /\ rq' = [rq EXCEPT !.pc = "done",
                        !.result = QueryDirect(rq.scores, rq.enabled, rq.threshold)]
    /\ UNCHANGED <<appVars, loader, conns, ckpt, tokens>>

SpecQuery == QueryInit /\ [][RunQuery]_vars

\* C32 as stated: the query answers in fallback mode with no retrieved_docs
\* when the search returns nothing or the best similarity 1 - distance is
\* below the threshold, and in RAG mode with one entry per document otherwise.
C32_FallbackOnLowSimilarity ==
    rq.pc = "done" =>
        LET low == \A i \in 1..Len(rq.scores) : 10 - rq.scores[i] < rq.threshold
        IN  IF rq.scores = <<>> \/ low
            THEN rq.result.fallback_mode /\ rq.result.retrieved_docs = <<>>
            ELSE /\ ~rq.result.fallback_mode
                 /\ Len(rq.result.retrieved_docs) = Len(rq.scores)

\* C32 amended: the similarity test is made only while RAG_FALLBACK_ENABLED
\* is on, on the similarity max(0, 1 - distance); with the switch off only an
\* empty search result leads to the fallback answer.
C32_FallbackOnLowSimilarityWhenEnabled ==
    rq.pc = "done" =>
        LET low == \A i \in 1..Len(rq.scores) :
                       Similarity(rq.scores[i]) < rq.threshold
        IN  IF rq.scores = <<>> \/ (rq.enabled /\ low)
            THEN rq.result.fallback_mode /\ rq.result.retrieved_docs = <<>>
            ELSE /\ ~rq.result.fallback_mode
                 /\ Len(rq.result.retrieved_docs) = Len(rq.scores)

\* a query fell back because both documents were too far from the question
C32_Witness ==
    /\ rq.pc = "done"
    /\ Len(rq.scores) = 2
    /\ rq.enabled
    /\ rq.result.fallback_mode

FairInit ==
    /\ IntegIdle
    /\ IngestIdle
    /\ ChatIdle
    /\ SvcIdle
    /\ cfg \in {c \in [use_checkpoint : BOOLEAN, use_summarization : BOOLEAN,
                       threshold : ThresholdValues, keep_messages : KeepValues,
                       max_retry_count : {3}] :
                  c.use_checkpoint => c.use_summarization}
    /\ st = EmptyState
    /\ pc = "idle"
    /\ run = RunIdle

\* weak fairness of every node; for summarize_messages and
\* generate_query_or_respond it is written out, the node being enabled
\* exactly while pc names it
SpecGraphFair ==
    /\ FairInit
    /\ [][GraphNext]_vars
    /\ WF_vars(\E output \in ToolOutputs, grade \in Grades : RetrieveAndGrade(output, grade))
    /\ WF_vars(\E rewritten \in RewriteOutputs : RewriteQuestion(rewritten))
    /\ WF_vars(GenerateAnswer)
    /\ \/ []<>(pc # "summarize_messages")
       \/ []<><<\E summary \in SummaryOutputs : SummarizeMessages(summary)>>_vars
    /\ \/ []<>(pc # "generate_query_or_respond")
       \/ []<><<\E kind \in ReplyKinds : GenerateQueryOrRespond(kind)>>_vars

\* most node executions of one run: three rounds of summarize,
\* generate_query_or_respond and retrieve, two rewrites and the answer
NodesPerRun == 12

C35_DeleteWinsOverRunningJob ==
    \A d \in DocIds :
        (obs.deleted[d] /\ jobs[d].pc = "idle") =>
            (documents[d].status = "deleted" /\ EntriesOf(d) = {})

\* C36: at most one ingestion job runs for a doc_id: a confirm-upload or
\* process request for a document that is already being processed or is
\* already active starts no job.
C36_NoJobForProcessedDocument ==
    [][\A d \in DocIds :
          (jobs[d].pc = "idle" /\ jobs'[d].pc # "idle")
              => documents[d].status # "active"]_vars

(***************************************************************************)
(* Properties of the integrity pass: what it leaves alone                  *)
(***************************************************************************)
\* the message at i is none the pass is meant to touch: a system or user
\* message, a tool message that answers its assistant, an assistant message
\* whose tool calls are all answered
LeftAlone(msgs, i) ==
    \/ IsSystem(msgs[i])
    \/ IsHuman(msgs[i])
    \/ IsTool(msgs[i]) /\ AnswersItsAssistant(msgs, i)
    \/ IsAI(msgs[i]) /\ Len(MatchedCalls(msgs, i)) = Len(msgs[i].tool_calls)

RECURSIVE LeftAloneFrom(_, _)
LeftAloneFrom(msgs, i) ==
    IF i > Len(msgs) THEN <<>>
    ELSE (IF LeftAlone(msgs, i) THEN <<msgs[i]>> ELSE <<>>) \o LeftAloneFrom(msgs, i + 1)

RECURSIVE IsSubsequence(_, _)
IsSubsequence(a, b) ==
    IF a = <<>> THEN TRUE
    ELSE IF b = <<>> THEN FALSE
    ELSE IF a[1] = b[1] THEN IsSubsequence(Tail(a), Tail(b))
    ELSE IsSubsequence(a, Tail(b))

\* C37: the integrity pass removes or alters only unmatched tool messages
\* and assistant messages with unmatched tool calls: every other message of
\* the input is in the output, unchanged and in its original order.
C37_OtherMessagesKept ==
    integ_pc = "done" => IsSubsequence(LeftAloneFrom(in_msgs, 1), out_msgs)

\* C38: every slot taken from the connection pool is released when the DAO
\* call ends, also when the pooled connection is found dead at checkout or at
\* return: with no connection held by a caller the pool keys none as used.
C38_PoolSlotsReleased ==
    (\A c \in ConnIds : conns[c].loc # "caller") => UsedByPool = {}

(***************************************************************************)
(* The token statistics of chat requests.  token_counter is one object of  *)
(* the process; the requests of Runs are served by threads of the same     *)
(* process, each resetting the counter when it starts, adding to it at     *)
(* every LLM call of its nodes and reading the total when it finishes.     *)
(***************************************************************************)
MaxLlmCalls == 2        \* LLM calls of one request
TokenCosts == {1, 2}    \* tokens one LLM call may cost

TokensInit ==
    /\ IntegIdle
    /\ GraphIdle
    /\ IngestIdle
    /\ ChatIdle
    /\ SvcIdle

\* _query_langgraph_stream begins: token_counter.reset()
ResetTokenCounter(r) ==
    /\ tokens.req[r].pc = "idle"
    /\ tokens' = [tokens EXCEPT !.total = 0, !.req[r].pc = "running"]
    /\ UNCHANGED <<appVars, loader, conns, ckpt, rq>>

\* a node of request r calls the LLM and then token_counter.count_tokens
CountTokens(r, n) ==
    /\ tokens.req[r].pc = "running"
    /\ tokens.req[r].calls < MaxLlmCalls
    /\ tokens' = [tokens EXCEPT !.total = @ + n,
                                !.req[r].own = @ + n,
                                !.req[r].calls = @ + 1]
    /\ UNCHANGED <<appVars, loader, conns, ckpt, rq>>

\* total_stats.get("total_tokens", 0) or (len(question) // 4 + len(answer) // 4)
TokensUsed(total, estimate) == IF total # 0 THEN total ELSE estimate

\* the request finishes, after at least one LLM call, and reports tokens_used
ReportTokensUsed(r, estimate) ==
    /\ tokens.req[r].pc = "running"
    /\ tokens.req[r].calls >= 1
    /\ tokens' = [tokens EXCEPT
                     !.req[r].pc = "done",
                     !.req[r].tokens_used = TokensUsed(tokens.total, estimate)]
    /\ UNCHANGED <<appVars, loader, conns, ckpt, rq>>

TokensNext ==
    \/ \E r \in Runs : ResetTokenCounter(r)
    \/ \E r \in Runs, n \in TokenCosts : CountTokens(r, n)
    \/ \E r \in Runs, estimate \in TokenCosts : ReportTokensUsed(r, estimate)

SpecTokens == TokensInit /\ [][TokensNext]_vars

\* C39: the tokens_used value reported for a chat request counts only the
\* LLM calls made for that request, also when several requests run
\* concurrently in the same process.
C39_TokensOfOwnRequest ==
    \A r \in Runs :
        tokens.req[r].pc = "done" => tokens.req[r].tokens_used = tokens.req[r].own

\* C40: the integrity pass is idempotent: applying _clean_orphaned_tool_calls
\* to its own output returns the same message list.
C40_IntegrityPassIdempotent ==
    integ_pc = "done" => CleanOrphanedToolCalls(out_msgs) = out_msgs

====
